---- MODULE Spec2Model ----
(***************************************************************************)
(* Model of conda_pypi/package_extractors/whl.py: the conversion of a      *)
(* wheel into a conda package directory by MyWheelDestination, driven by   *)
(* installer.install through extract_whl_as_conda_pkg.                     *)
(*                                                                         *)
(* Text is a sequence of one-character strings, bytes are sequences of     *)
(* naturals below 256, an optional value is <<>> (None) or <<v>>.          *)
(***************************************************************************)
EXTENDS Integers, Sequences, FiniteSets, TLC

\* ------------------------------------------------------------------ bounds

\* The number of write_script / write_file calls the driver makes for the
\* wheel's own entry points and files (the INSTALLER file and the RECORD come
\* on top of these).
MaxCalls == 2

\* The number of records handed to finalize_installation in SpecFinalize,
\* before the reserved RECORD slot.
MaxRecords == 1

\* ------------------------------------------------------- optional values

None == << >>

Some(v) == << v >>

\* ------------------------------------------------------------------ text

RECURSIVE Concat(_)
\* The concatenation of a sequence of texts.
Concat(parts) ==
    IF parts = << >> THEN << >> ELSE Head(parts) \o Concat(Tail(parts))

\* str.startswith
StartsWith(s, prefix) ==
    /\ Len(s) >= Len(prefix)
    /\ SubSeq(s, 1, Len(prefix)) = prefix

\* The printable ASCII characters, code 32 first (the backslash and the
\* backtick, which no text of the model holds, by name).
Printable ==
    << " ", "!", "\"", "#", "$", "%", "&", "'", "(", ")", "*", "+", ",", "-",
       ".", "/", "0", "1", "2", "3", "4", "5", "6", "7", "8", "9", ":", ";",
       "<", "=", ">", "?", "@", "A", "B", "C", "D", "E", "F", "G", "H", "I",
       "J", "K", "L", "M", "N", "O", "P", "Q", "R", "S", "T", "U", "V", "W",
       "X", "Y", "Z", "[", "backslash", "]", "^", "_", "backtick",
       "a", "b", "c", "d", "e", "f", "g", "h", "i", "j", "k", "l", "m", "n",
       "o", "p", "q", "r", "s", "t", "u", "v", "w", "x", "y", "z", "{", "|",
       "}", "~" >>

\* The code of each character (utf-8 of ASCII text is one byte per
\* character).
OrdTable ==
    [c \in {Printable[i] : i \in 1..Len(Printable)} \cup {"\n"} |->
        IF c = "\n" THEN 10
        ELSE 31 + (CHOOSE i \in 1..Len(Printable) : Printable[i] = c)]

Ord(c) == OrdTable[c]

\* str.encode("utf-8") of ASCII text.
EncodeUtf8(s) == [i \in 1..Len(s) |-> Ord(s[i])]

Digits == << "0", "1", "2", "3", "4", "5", "6", "7", "8", "9" >>

RECURSIVE IntToStr(_)
\* str(n) of a natural number.
IntToStr(n) ==
    IF n < 10 THEN << Digits[n + 1] >>
    ELSE IntToStr(n \div 10) \o << Digits[(n % 10) + 1] >>

\* str.strip() leaves nothing: the text is empty or all blanks.
IsBlank(s) == \A i \in 1..Len(s) : s[i] = " "

\* ---------------------------------------------------------------- digests

\* The length of a SHA-256 digest in bytes.
DigestLen == 32

RECURSIVE Mix(_, _, _)
\* A checksum over the bytes lo..hi that depends on each byte and on its
\* place in the stream.
Mix(bytes, lo, hi) ==
    IF lo > hi THEN 0
    ELSE IF lo = hi THEN (lo * (bytes[lo] + 1)) % 65521
    ELSE (Mix(bytes, lo, (lo + hi) \div 2) + Mix(bytes, ((lo + hi) \div 2) + 1, hi)) % 65521

\* The digest bytes for a checksum and a length.
DigestBytes(sum, n) == [k \in 1..DigestLen |-> (sum * k + n * 13 + k * k) % 256]

\* hashlib's digest of the bytes: DigestLen bytes that depend on every byte
\* streamed and on their number (a stand-in for SHA-256 that keeps distinct
\* contents of the model apart).
Sha256Digest(bytes) == DigestBytes(Mix(bytes, 1, Len(bytes)), Len(bytes))

\* The URL-safe base64 alphabet, value 0 first.
B64Alphabet ==
    << "A", "B", "C", "D", "E", "F", "G", "H", "I", "J", "K", "L", "M", "N",
       "O", "P", "Q", "R", "S", "T", "U", "V", "W", "X", "Y", "Z", "a", "b",
       "c", "d", "e", "f", "g", "h", "i", "j", "k", "l", "m", "n", "o", "p",
       "q", "r", "s", "t", "u", "v", "w", "x", "y", "z", "0", "1", "2", "3",
       "4", "5", "6", "7", "8", "9", "-", "_" >>

B64Char(v) == B64Alphabet[v + 1]

B64ValueTable ==
    [c \in {B64Alphabet[i] : i \in 1..Len(B64Alphabet)} |->
        (CHOOSE i \in 1..Len(B64Alphabet) : B64Alphabet[i] = c) - 1]

B64Value(c) == B64ValueTable[c]

RECURSIVE UrlsafeB64Encode(_)
\* base64.urlsafe_b64encode: three bytes to four characters, the last group
\* padded with "=".
UrlsafeB64Encode(bytes) ==
    IF bytes = << >> THEN << >>
    ELSE IF Len(bytes) = 1 THEN
        << B64Char(bytes[1] \div 4), B64Char((bytes[1] % 4) * 16), "=", "=" >>
    ELSE IF Len(bytes) = 2 THEN
        << B64Char(bytes[1] \div 4),
           B64Char((bytes[1] % 4) * 16 + bytes[2] \div 16),
           B64Char((bytes[2] % 16) * 4), "=" >>
    ELSE
        << B64Char(bytes[1] \div 4),
           B64Char((bytes[1] % 4) * 16 + bytes[2] \div 16),
           B64Char((bytes[2] % 16) * 4 + bytes[3] \div 64),
           B64Char(bytes[3] % 64) >>
        \o UrlsafeB64Encode(SubSeq(bytes, 4, Len(bytes)))

RECURSIVE RStripPad(_)
\* str.rstrip("=")
RStripPad(s) ==
    IF s # << >> /\ s[Len(s)] = "=" THEN RStripPad(SubSeq(s, 1, Len(s) - 1))
    ELSE s

\* installer.utils.copyfileobj_with_hashing: every byte of the source goes to
\* the destination; the result is the digest as unpadded URL-safe base64 and
\* the number of bytes copied.
copyfileobj_with_hashing(source) ==
    [ written |-> source,
      hash_   |-> RStripPad(UrlsafeB64Encode(Sha256Digest(source))),
      size    |-> Len(source) ]

RECURSIVE UrlsafeB64Decode(_)
\* base64.urlsafe_b64decode of padded text: four characters to three bytes,
\* fewer for a padded last group.
UrlsafeB64Decode(s) ==
    IF Len(s) < 4 THEN << >>
    ELSE
        LET a == B64Value(s[1])
            b == B64Value(s[2])
            rest == UrlsafeB64Decode(SubSeq(s, 5, Len(s)))
        IN  IF s[3] = "=" THEN << a * 4 + b \div 16 >>
            ELSE IF s[4] = "=" THEN
                << a * 4 + b \div 16,
                   (b % 16) * 16 + B64Value(s[3]) \div 4 >>
            ELSE
                << a * 4 + b \div 16,
                   (b % 16) * 16 + B64Value(s[3]) \div 4,
                   (B64Value(s[3]) % 4) * 64 + B64Value(s[4]) >> \o rest

HexDigits ==
    << "0", "1", "2", "3", "4", "5", "6", "7", "8", "9",
       "a", "b", "c", "d", "e", "f" >>

RECURSIVE BytesHex(_)
\* bytes.hex(): two lowercase hexadecimal digits per byte.
BytesHex(bytes) ==
    IF bytes = << >> THEN << >>
    ELSE << HexDigits[(Head(bytes) \div 16) + 1], HexDigits[(Head(bytes) % 16) + 1] >>
         \o BytesHex(Tail(bytes))

\* The "=" padding that brings a text to a multiple of four characters.
B64Padding(s) == [i \in 1..((4 - (Len(s) % 4)) % 4) |-> "="]

\* conda_pypi.utils.sha256_base64url_to_hex: None for None, "" and blank
\* text; otherwise the digest the base64url text encodes, as lowercase hex.
sha256_base64url_to_hex(base64url) ==
    IF base64url = None \/ IsBlank(base64url[1]) THEN None
    ELSE Some(BytesHex(UrlsafeB64Decode(base64url[1] \o B64Padding(base64url[1]))))

\* ------------------------------------------------------------------ paths

RECURSIVE SplitSlash(_, _)
\* The pieces of a text between its "/" characters; cur is the piece being
\* read.
SplitSlash(s, cur) ==
    IF s = << >> THEN << cur >>
    ELSE IF Head(s) = "/" THEN << cur >> \o SplitSlash(Tail(s), << >>)
    ELSE SplitSlash(Tail(s), Append(cur, Head(s)))

\* pathlib's parts of a relative path: empty pieces and "." pieces drop out.
Parts(s) == SelectSeq(SplitSlash(s, << >>), LAMBDA seg : seg # << >> /\ seg # << "." >>)

RECURSIVE JoinSlash(_)
\* "/".join(parts)
JoinSlash(parts) ==
    IF parts = << >> THEN << >>
    ELSE IF Len(parts) = 1 THEN parts[1]
    ELSE parts[1] \o << "/" >> \o JoinSlash(Tail(parts))

\* Path(path).as_posix(): the parts joined by "/", "." for no part at all.
as_posix(path) ==
    IF Parts(path) = << >> THEN << "." >> ELSE JoinSlash(Parts(path))

\* Path.parent of a location under the target root.
Parent(p) == SubSeq(p, 1, Len(p) - 1)

\* ------------------------------------------------------------- the scheme map

SitePackages == << "s", "i", "t", "e", "-", "p", "a", "c", "k", "a", "g", "e", "s" >>

Bin == << "b", "i", "n" >>

Include == << "i", "n", "c", "l", "u", "d", "e" >>

\* The table with the data scheme nested under site-packages.
SchemeTableDataInSitePackages ==
    [ purelib |-> SitePackages,
      platlib |-> SitePackages,
      scripts |-> Bin,
      data    |-> SitePackages,
      headers |-> Include ]

\* Maps wheel scheme names to their conda package directory prefix; the empty
\* text means directly under the package root.
SCHEME_TO_CONDA_PREFIX ==
    [ purelib |-> SitePackages,
      platlib |-> SitePackages,
      scripts |-> Bin,
      data    |-> << >>,
      headers |-> Include ]

\* ------------------------------------------------------------------- records

\* The name of the hash algorithm of every digest here.
Sha256 == << "s", "h", "a", "2", "5", "6" >>

Hash(name, value) == [name |-> name, value |-> value]

RecordEntry(path, hash_, size) == [path |-> path, hash_ |-> hash_, size |-> size]

\* RecordEntry.to_row with no prefix, as csv.writer writes it: the path, the
\* hash as name=value or nothing, the size or nothing, and a line feed.
RecordRow(record) ==
    record.path \o << "," >>
    \o (IF record.hash_ = None THEN << >>
        ELSE record.hash_[1].name \o << "=" >> \o record.hash_[1].value)
    \o << "," >>
    \o (IF record.size = None THEN << >> ELSE IntToStr(record.size[1]))
    \o << "\n" >>

\* installer.utils.construct_record_file with a prefix_for_scheme that gives
\* None: one row per record, in the order of the list.
construct_record_file(record_list) ==
    EncodeUtf8(Concat([i \in 1..Len(record_list) |-> RecordRow(record_list[i][2])]))

\* --------------------------------------------------------------- the disk

\* The target root: files (location -> content and executable bit), the
\* directories, and the JSON documents (location -> the object written).
\* A location is the sequence of path parts below target_full_path.
\* root is target_full_path itself, the place of the target root.
FreshDisk(target_full_path) ==
    [files |-> << >>, dirs |-> { << >> }, json |-> << >>, root |-> target_full_path]

\* The target roots extractions are made into.
TargetRoot == << "/", "t" >>

OtherTargetRoot == << "/", "u" >>

EmptyDisk == FreshDisk(TargetRoot)

IsFile(d, p) == p \in DOMAIN d.files

IsDir(d, p) == p \in d.dirs

\* The outcome of a step on the disk: the exception raised ("none" for none)
\* and the disk it leaves.
Outcome(raised, d) == [raised |-> raised, disk |-> d]

\* Path.mkdir(parents=True, exist_ok=True)
mkdir_parents(d, p) ==
    IF \E k \in 1..(Len(p) - 1) : IsFile(d, SubSeq(p, 1, k))
    THEN Outcome("NotADirectoryError", d)
    ELSE IF IsFile(d, p) THEN Outcome("FileExistsError", d)
    ELSE Outcome("none", [d EXCEPT !.dirs = @ \cup {SubSeq(p, 1, k) : k \in 0..Len(p)}])

\* The mode of an exclusive open.
OpenModeExclusive == "xb"

\* The mode write_file opens its destination with.
OpenMode == "wb"

\* The open and the copy with the file opened for appending: what is there
\* stays and the stream is added to it.
open_and_append(d, p, mode, written) ==
    IF ~IsDir(d, Parent(p)) THEN Outcome("FileNotFoundError", d)
    ELSE IF IsDir(d, p) THEN Outcome("IsADirectoryError", d)
    ELSE Outcome("none",
            [d EXCEPT !.files =
                (p :> [data |-> (IF IsFile(d, p) THEN d.files[p].data ELSE << >>) \o written,
                       executable |-> IF IsFile(d, p) THEN d.files[p].executable ELSE FALSE])
                @@ @])

\* Path.open(mode) for writing, then the copy of the stream into the file:
\* "wb" creates the file or truncates the one there (its permission bits
\* stay), "xb" refuses a file that is there.
open_and_copy(d, p, mode, written) ==
    IF \E k \in 1..(Len(p) - 1) : IsFile(d, SubSeq(p, 1, k))
    THEN Outcome("NotADirectoryError", d)
    ELSE IF ~IsDir(d, Parent(p)) THEN Outcome("FileNotFoundError", d)
    ELSE IF IsDir(d, p) THEN Outcome("IsADirectoryError", d)
    ELSE IF mode = "xb" /\ IsFile(d, p) THEN Outcome("FileExistsError", d)
    ELSE Outcome("none",
            [d EXCEPT !.files =
                (p :> [data |-> written,
                       executable |-> IF IsFile(d, p) THEN d.files[p].executable ELSE FALSE])
                @@ @])

\* installer.utils.make_file_executable
make_file_executable(d, p) == [d EXCEPT !.files[p].executable = TRUE]

\* write_as_json_to_file: the object as key-sorted JSON text at file_path,
\* replacing what was there.
write_as_json_to_file(d, file_path, obj) ==
    [d EXCEPT !.json = (file_path :> obj) @@ @]

\* ------------------------------------------------------ MyWheelDestination

\* f"{name} = {module}:{attr}"
EntryPointLine(name, module, attr) ==
    name \o << " ", "=", " " >> \o module \o << ":" >> \o attr

\* f"../../../bin/{name}"
ScriptRecordPath(name) ==
    << ".", ".", "/", ".", ".", "/", ".", ".", "/", "b", "i", "n", "/" >> \o name

\* write_script that also writes the launcher bin/<name> itself.
write_script_materialized(d, eps, name, module, attr, section) ==
    [ entry_points |-> Append(eps, EntryPointLine(name, module, attr)),
      disk         |-> [d EXCEPT !.dirs = @ \cup {<< Bin >>},
                                 !.files = (<< Bin, name >> :> [data |-> << >>, executable |-> TRUE]) @@ @],
      ret          |-> RecordEntry(ScriptRecordPath(name), None, None) ]

\* write_script: the entry point joins the session's list; nothing is written.
\* The result is the session's entry points, the disk and the record returned.
write_script(d, eps, name, module, attr, section) ==
    [ entry_points |-> Append(eps, EntryPointLine(name, module, attr)),
      disk         |-> d,
      ret          |-> RecordEntry(ScriptRecordPath(name), None, None) ]

\* The scheme test that opens write_file.
SchemeSupported(scheme) == scheme \in DOMAIN SCHEME_TO_CONDA_PREFIX

\* dest_path of write_file below target_full_path, for the normalised path.
DestPath(scheme, path) ==
    LET conda_prefix == SCHEME_TO_CONDA_PREFIX[scheme]
    IN  IF conda_prefix # << >> THEN Parts(conda_prefix) \o Parts(path)
        ELSE Parts(path)

\* The record write_file returns for the normalised path and the copy made.
FileRecord(path, copied) ==
    RecordEntry(path, Some(Hash(Sha256, copied.hash_)), Some(copied.size))

\* write_file once the scheme is known to the table: the exception raised
\* ("none" for none), the disk it leaves and the record returned (None when
\* it raised).
write_supported(d, scheme, path, stream, is_executable) ==
    LET posix == as_posix(path)
        dest_path == DestPath(scheme, posix)
        made == mkdir_parents(d, Parent(dest_path))
        copied == copyfileobj_with_hashing(stream)
        opened == open_and_copy(made.disk, dest_path, OpenMode, copied.written)
    IN  IF made.raised # "none"
        THEN [raised |-> made.raised, disk |-> made.disk, ret |-> None]
        ELSE IF opened.raised # "none"
        THEN [raised |-> opened.raised, disk |-> opened.disk, ret |-> None]
        ELSE [ raised |-> "none",
               disk   |-> IF is_executable
                          THEN make_file_executable(opened.disk, dest_path)
                          ELSE opened.disk,
               ret    |-> Some(FileRecord(posix, copied)) ]

\* write_file with the scheme tested only after the directories of the path
\* were made.
write_file_late_check(d, scheme, path, stream, is_executable) ==
    IF ~SchemeSupported(scheme)
    THEN [ raised |-> "ValueError",
           disk   |-> mkdir_parents(d, Parent(Parts(as_posix(path)))).disk,
           ret    |-> None ]
    ELSE write_supported(d, scheme, path, stream, is_executable)

\* write_file: a scheme outside the table raises before anything else.
write_file(d, scheme, path, stream, is_executable) ==
    IF ~SchemeSupported(scheme)
    THEN [raised |-> "ValueError", disk |-> d, ret |-> None]
    ELSE write_supported(d, scheme, path, stream, is_executable)

InfoDir == << << "i", "n", "f", "o" >> >>

\* info_dir.mkdir(exist_ok=True)
mkdir_info(d) ==
    IF IsFile(d, InfoDir) THEN Outcome("FileExistsError", d)
    ELSE IF ~IsDir(d, Parent(InfoDir)) THEN Outcome("FileNotFoundError", d)
    ELSE Outcome("none", [d EXCEPT !.dirs = @ \cup {InfoDir}])

\* link.json with the entry_points key written whether or not there are any.
LinkJsonAlwaysEntryPoints(eps) ==
    [ noarch |-> [type |-> "python", entry_points |-> eps],
      package_metadata_version |-> 1 ]

\* link.json
LinkJson(eps) ==
    [ noarch |-> IF eps # << >>
                 THEN [type |-> "python", entry_points |-> eps]
                 ELSE [type |-> "python"],
      package_metadata_version |-> 1 ]

\* The record of an entry point told by its missing hash.
IsEntryPointByMissingHash(record) == record.hash_ = None

\* record.path.startswith(".."): the record of an entry point.
IsEntryPoint(record) == StartsWith(record.path, << ".", "." >>)

\* conda_path of a record under its scheme.
CondaPath(scheme, record) ==
    LET conda_prefix == SCHEME_TO_CONDA_PREFIX[scheme]
    IN  IF conda_prefix # << >> THEN conda_prefix \o << "/" >> \o record.path
        ELSE record.path

\* record.hash_.value if record.hash_ else None
HashValueOrNone(record) ==
    IF record.hash_ # None THEN Some(record.hash_[1].value) ELSE None

\* One entry of the paths list with the digest left as the record has it.
PathsEntryBase64(scheme, record) ==
    [ _path         |-> CondaPath(scheme, record),
      path_type     |-> "hardlink",
      sha256        |-> HashValueOrNone(record),
      size_in_bytes |-> record.size ]

\* One entry of the paths list.
PathsEntry(scheme, record) ==
    [ _path         |-> CondaPath(scheme, record),
      path_type     |-> "hardlink",
      sha256        |-> sha256_base64url_to_hex(HashValueOrNone(record)),
      size_in_bytes |-> record.size ]

RECURSIVE PathsList(_)
\* The loop over the records that builds the paths list.
PathsList(records) ==
    IF records = << >> THEN << >>
    ELSE (IF IsEntryPoint(Head(records)[2]) THEN << >>
          ELSE << PathsEntry(Head(records)[1], Head(records)[2]) >>)
         \o PathsList(Tail(records))

\* paths.json
PathsJson(records) == [paths |-> PathsList(records), paths_version |-> 1]

BuildString == << "p", "y", "p", "i", "_", "0" >>

\* index.json with fn lacking the wheel's version.
IndexJsonFnWithoutVersion(source) ==
    [ name         |-> source.distribution,
      version      |-> source.version,
      build        |-> BuildString,
      build_number |-> 0,
      fn           |-> source.distribution \o << "-" >> \o BuildString
                       \o << ".", "w", "h", "l" >> ]

\* index.json
IndexJson(source) ==
    [ name         |-> source.distribution,
      version      |-> source.version,
      build        |-> BuildString,
      build_number |-> 0,
      fn           |-> source.distribution \o << "-" >> \o source.version
                       \o << "-" >> \o BuildString \o << ".", "w", "h", "l" >> ]

LinkJsonPath == InfoDir \o << << "l", "i", "n", "k", ".", "j", "s", "o", "n" >> >>

PathsJsonPath == InfoDir \o << << "p", "a", "t", "h", "s", ".", "j", "s", "o", "n" >> >>

IndexJsonPath == InfoDir \o << << "i", "n", "d", "e", "x", ".", "j", "s", "o", "n" >> >>

\* _create_conda_metadata with the _path of every entry of paths.json made
\* absolute: the target root put in front of it.
create_conda_metadata_absolute_paths(d, eps, records, source) ==
    LET made == mkdir_info(d)
        relative == PathsJson(records)
        absolute == [relative EXCEPT !.paths =
                        [i \in DOMAIN @ |->
                            [@[i] EXCEPT !._path = d.root \o << "/" >> \o @]]]
    IN  IF made.raised # "none" THEN made
        ELSE Outcome("none",
                write_as_json_to_file(
                    write_as_json_to_file(
                        write_as_json_to_file(made.disk, LinkJsonPath, LinkJson(eps)),
                        PathsJsonPath, absolute),
                    IndexJsonPath, IndexJson(source)))

\* _create_conda_metadata: the info directory and the three documents.
create_conda_metadata(d, eps, records, source) ==
    LET made == mkdir_info(d)
    IN  IF made.raised # "none" THEN made
        ELSE Outcome("none",
                write_as_json_to_file(
                    write_as_json_to_file(
                        write_as_json_to_file(made.disk, LinkJsonPath, LinkJson(eps)),
                        PathsJsonPath, PathsJson(records)),
                    IndexJsonPath, IndexJson(source)))

\* finalize_installation that adds the RECORD's record at the end of the list
\* and leaves the slot reserved for it as it is.
finalize_installation_appends(d, eps, source, scheme, record_file_path, records, io_ok) ==
    LET record_list == records
        dest_path == Parts(SitePackages) \o Parts(record_file_path)
        copied == copyfileobj_with_hashing(construct_record_file(record_list))
        opened == IF io_ok THEN open_and_copy(d, dest_path, "wb", copied.written)
                  ELSE Outcome("OSError", d)
        appended == Append(record_list,
                           << "purelib", FileRecord(record_file_path, copied) >>)
    IN  IF opened.raised # "none"
        THEN [raised |-> opened.raised, disk |-> opened.disk, record_list |-> record_list]
        ELSE LET created == create_conda_metadata(opened.disk, eps, appended, source)
             IN  [raised |-> created.raised, disk |-> created.disk, record_list |-> appended]

\* finalize_installation that creates the metadata before it writes the
\* RECORD.
finalize_installation_metadata_first(d, eps, source, scheme, record_file_path, records, io_ok) ==
    LET record_list == records
        dest_path == Parts(SitePackages) \o Parts(record_file_path)
        copied == copyfileobj_with_hashing(construct_record_file(record_list))
        replaced == [record_list EXCEPT ![Len(record_list)] =
                        << "purelib", FileRecord(record_file_path, copied) >>]
        created == create_conda_metadata(d, eps, replaced, source)
        opened == IF io_ok THEN open_and_copy(created.disk, dest_path, "wb", copied.written)
                  ELSE Outcome("OSError", created.disk)
    IN  IF created.raised # "none"
        THEN [raised |-> created.raised, disk |-> created.disk, record_list |-> replaced]
        ELSE [raised |-> opened.raised, disk |-> opened.disk, record_list |-> replaced]

\* finalize_installation: the RECORD is built from the records and written
\* under site-packages, its record takes the last slot of the list, and the
\* metadata is created from the list. io_ok is whether the disk takes the
\* RECORD (it may be full or read-only). The result is the exception raised,
\* the disk left and the list as handed to _create_conda_metadata.
finalize_installation(d, eps, source, scheme, record_file_path, records, io_ok) ==
    LET record_list == records
        record_stream == construct_record_file(record_list)
        dest_path == Parts(SitePackages) \o Parts(record_file_path)
        copied == copyfileobj_with_hashing(record_stream)
        opened == IF io_ok THEN open_and_copy(d, dest_path, "wb", copied.written)
                  ELSE Outcome("OSError", d)
        record_file_record == FileRecord(record_file_path, copied)
        replaced == [record_list EXCEPT ![Len(record_list)] =
                        << "purelib", record_file_record >>]
    IN  IF opened.raised # "none"
        THEN [raised |-> opened.raised, disk |-> opened.disk, record_list |-> record_list]
        ELSE IF record_list = << >>
        THEN [raised |-> "IndexError", disk |-> opened.disk, record_list |-> record_list]
        ELSE LET created == create_conda_metadata(opened.disk, eps, replaced, source)
             IN  [raised |-> created.raised, disk |-> created.disk, record_list |-> replaced]

\* ------------------------------------------------------------ the driver

\* The wheels extracted: the distribution name and version of the source, and
\* the scheme its WHEEL file roots it in.
Wheels ==
    { [distribution |-> << "d" >>, version |-> << "1" >>, root_scheme |-> "purelib"],
      [distribution |-> << "e", "-", "p" >>, version |-> << "0", ".", "2" >>,
       root_scheme |-> "platlib"] }

\* source.dist_info_dir
DistInfoDir(source) ==
    source.distribution \o << "-" >> \o source.version
    \o << ".", "d", "i", "s", "t", "-", "i", "n", "f", "o" >>

\* The path of the RECORD the driver gives finalize_installation.
RecordFilePath(source) == DistInfoDir(source) \o << "/", "R", "E", "C", "O", "R", "D" >>

\* The INSTALLER file of additional_metadata and its content.
InstallerPath(source) ==
    DistInfoDir(source) \o << "/", "I", "N", "S", "T", "A", "L", "L", "E", "R" >>

InstallerContent ==
    EncodeUtf8(<< "c", "o", "n", "d", "a", "-", "v", "i", "a", "-", "w", "h", "l" >>)

\* The schemes a wheel file may declare: the five of the table and one the
\* table does not know.
Schemes == {"purelib", "platlib", "scripts", "data", "headers", "other"}

\* The paths of the wheel's files inside their scheme.
FilePaths ==
    { << ".", "/", "h" >>,
      << "i", "n", "c", "l", "u", "d", "e", "/", "h" >> }

\* The executable flags of the wheel's files: the files of the scripts scheme
\* are the ones that come marked executable.
ExecutableFlags(scheme) == {scheme = "scripts"}

\* The contents of the wheel's files.
Streams == { << >>, << 7, 9 >> }

\* The entry points of the wheel.
ScriptNames == { << "a" >>, << "b" >> }

Modules == { << "m" >> }

Attrs == { << "f" >> }

Sections == {"console", "gui"}

VARIABLES
    disk,          \* the target root on disk
    entry_points,  \* self.entry_points
    source,        \* self.source: the wheel being extracted
    records,       \* the driver's written_records
    record_list,   \* the list finalize_installation hands to _create_conda_metadata
    calls,         \* the calls the driver has made, with what each raised
    pc,            \* where the driver is: "files", "metadata", "done", "failed"
    error,         \* the exception that ended the extraction, "none" for none
    first_run      \* what an earlier extraction of the same wheel was given and
                   \* left, None while the extraction is the first

vars == << disk, entry_points, source, records, record_list, calls, pc, error,
          first_run >>

\* MyWheelDestination(target_full_path, source) on a fresh target root, and
\* the driver about to start.
Init ==
    /\ disk = EmptyDisk
    /\ entry_points = << >>
    /\ source \in Wheels
    /\ records = << >>
    /\ record_list = << >>
    /\ calls = << >>
    /\ pc = "files"
    /\ error = "none"
    /\ first_run = None

\* The driver's step after a call of the destination returned or raised.
Proceed(raised, next_pc) ==
    /\ pc' = IF raised = "none" THEN next_pc ELSE "failed"
    /\ error' = raised

\* The driver declares one entry point of the wheel.
WriteScript(name, module, attr, section) ==
    /\ pc = "files"
    /\ Len(calls) < MaxCalls
    /\ \E r \in {write_script(disk, entry_points, name, module, attr, section)} :
           /\ entry_points' = r.entry_points
           /\ disk' = r.disk
           /\ records' = Append(records, << "scripts", r.ret >>)
           /\ calls' = Append(calls, [op |-> "write_script", name |-> name,
                                      module |-> module, attr |-> attr,
                                      raised |-> "none"])
    /\ Proceed("none", "files")
    /\ UNCHANGED << source, record_list, first_run >>

\* A write_file call of the driver, and the record it appends when the call
\* returns.
DriverWriteFile(scheme, path, stream, is_executable, next_pc) ==
    \E r \in {write_file(disk, scheme, path, stream, is_executable)} :
        /\ disk' = r.disk
        /\ records' = IF r.raised = "none" THEN Append(records, << scheme, r.ret[1] >>)
                      ELSE records
        /\ calls' = Append(calls, [op |-> "write_file", scheme |-> scheme,
                                   path |-> path, stream |-> stream,
                                   is_executable |-> is_executable,
                                   raised |-> r.raised])
        /\ Proceed(r.raised, next_pc)
        /\ UNCHANGED << entry_points, source, record_list, first_run >>

\* The driver writes one file of the wheel.
WriteFile(scheme, path, stream, is_executable) ==
    /\ pc = "files"
    /\ Len(calls) < MaxCalls
    /\ DriverWriteFile(scheme, path, stream, is_executable, "files")

\* The driver writes additional_metadata, the INSTALLER file, into the
\* dist-info directory under the wheel's root scheme.
WriteInstaller ==
    /\ pc = "files"
    /\ DriverWriteFile(source.root_scheme, InstallerPath(source), InstallerContent,
                       FALSE, "metadata")

\* The driver's records with the slot it reserves for the RECORD at the end.
Reserved(written, src) ==
    Append(written, << src.root_scheme, RecordEntry(RecordFilePath(src), None, None) >>)

\* The driver reserves the RECORD's slot and calls finalize_installation.
FinalizeInstallation(io_ok) ==
    /\ pc = "metadata"
    /\ \E r \in {finalize_installation(disk, entry_points, source, source.root_scheme,
                                       RecordFilePath(source), Reserved(records, source),
                                       io_ok)} :
           /\ disk' = r.disk
           /\ records' = Reserved(records, source)
           /\ record_list' = r.record_list
           /\ Proceed(r.raised, "done")
    /\ UNCHANGED << entry_points, source, calls, first_run >>

Next ==
    \/ \E name \in ScriptNames, module \in Modules, attr \in Attrs, section \in Sections :
          WriteScript(name, module, attr, section)
    \/ \E scheme \in Schemes, path \in FilePaths, stream \in Streams :
          \E is_executable \in ExecutableFlags(scheme) :
             WriteFile(scheme, path, stream, is_executable)
    \/ WriteInstaller
    \/ \E io_ok \in BOOLEAN : FinalizeInstallation(io_ok)

Spec == Init /\ [][Next]_vars

\* ------------------------------------------- the same extraction twice

\* What the driver gave the destination in a call: the call without what it
\* raised.
CallInput(call) ==
    IF call.op = "write_script"
    THEN [op |-> call.op, name |-> call.name, module |-> call.module, attr |-> call.attr]
    ELSE [op |-> call.op, scheme |-> call.scheme, path |-> call.path,
          stream |-> call.stream, is_executable |-> call.is_executable]

\* The calls made so far are the first calls of the earlier extraction, in
\* its order: the wheel is the same and its files are iterated the same way.
RepeatsFirstRun ==
    \/ first_run = None
    \/ /\ Len(calls) <= Len(first_run[1].calls)
       /\ \A i \in 1..Len(calls) : CallInput(calls[i]) = CallInput(first_run[1].calls[i])

\* extract_whl_as_conda_pkg once more, of the same wheel into another fresh
\* target root: a new MyWheelDestination (an empty entry_points list of its
\* own) and a driver that starts over.
ExtractAgain ==
    /\ pc = "done"
    /\ first_run = None
    /\ first_run' = Some([calls |-> calls, json |-> disk.json, root |-> disk.root])
    /\ disk' = FreshDisk(OtherTargetRoot)
    /\ entry_points' = << >>
    /\ records' = << >>
    /\ record_list' = << >>
    /\ calls' = << >>
    /\ pc' = "files"
    /\ error' = "none"
    /\ UNCHANGED source

NextTwoRuns ==
    \/ Next /\ RepeatsFirstRun'
    \/ ExtractAgain

SpecTwoRuns == Init /\ [][NextTwoRuns]_vars

\* ------------------------------------------- finalize_installation alone

\* The records a driver may hand to finalize_installation: under a scheme of
\* the table, the path of a file or of an entry point, with no hash, a hash
\* whose value is empty or blank, or the hash of a file; with or without a
\* size.
HandedSchemes == {"purelib", "data", "scripts"}

HandedPaths == { << "h" >>, ScriptRecordPath(<< "a" >>) }

HandedHashes ==
    { None,
      Some(Hash(Sha256, << >>)),
      Some(Hash(Sha256, << " ", " ", " " >>)),
      Some(Hash(Sha256, copyfileobj_with_hashing(<< 7, 9 >>).hash_)) }

HandedSizes == { None, Some(2) }

HandedRecords ==
    { << scheme, RecordEntry(path, hash_, size) >> :
         scheme \in HandedSchemes, path \in HandedPaths,
         hash_ \in HandedHashes, size \in HandedSizes }

\* The target root as the driver leaves it before finalize_installation: the
\* INSTALLER file written into the dist-info directory.
DiskBeforeFinalize(src) ==
    write_file(EmptyDisk, src.root_scheme, InstallerPath(src), InstallerContent, FALSE).disk

\* finalize_installation about to be called with any list of records.
InitFinalize ==
    /\ source \in Wheels
    /\ disk = DiskBeforeFinalize(source)
    /\ entry_points \in { << >>, << EntryPointLine(<< "a" >>, << "m" >>, << "f" >>) >> }
    /\ records \in UNION { [1..n -> HandedRecords] : n \in 0..MaxRecords }
    /\ record_list = << >>
    /\ calls = << >>
    /\ pc = "metadata"
    /\ error = "none"
    /\ first_run = None

NextFinalize == \E io_ok \in BOOLEAN : FinalizeInstallation(io_ok)

SpecFinalize == InitFinalize /\ [][NextFinalize]_vars

\* ------------------------------------------------------------- the claims

\* The five schemes of the table.
FiveSchemes == {"purelib", "platlib", "scripts", "data", "headers"}

\* The directory each scheme is documented to install into, as path parts
\* below the target root.
DocumentedPrefix ==
    [ purelib |-> << << "s", "i", "t", "e", "-", "p", "a", "c", "k", "a", "g", "e", "s" >> >>,
      platlib |-> << << "s", "i", "t", "e", "-", "p", "a", "c", "k", "a", "g", "e", "s" >> >>,
      scripts |-> << << "b", "i", "n" >> >>,
      headers |-> << << "i", "n", "c", "l", "u", "d", "e" >> >>,
      data    |-> << >> ]

\* The place on disk a write_file call is documented to write: the parts of
\* <root>/prefix(scheme)/p.
DocumentedLocation(call) == DocumentedPrefix[call.scheme] \o Parts(call.path)

IsFileCall(i) == calls[i].op = "write_file"

\* The place of the i-th call's entry in the paths list: one entry per
\* write_file call, none for a write_script call.
FileRank(i) == Cardinality({j \in 1..i : IsFileCall(j)})

\* The documents written at finalization.
LinkDoc == disk.json[LinkJsonPath]

PathsDoc == disk.json[PathsJsonPath]

IndexDoc == disk.json[IndexJsonPath]

\* C1: every write_file under one of the five schemes puts the bytes at
\* <root>/prefix(scheme)/p, with prefix site-packages for purelib and platlib,
\* bin for scripts, include for headers and nothing for data; and after
\* finalize_installation the paths.json entry of that record has _path equal
\* to that root-relative location.
C1_FileAtSchemeLocation ==
    /\ \A i \in 1..Len(calls) :
          (IsFileCall(i) /\ calls[i].raised = "none") =>
             /\ calls[i].scheme \in FiveSchemes
             /\ IsFile(disk, DocumentedLocation(calls[i]))
             /\ (i = Len(calls) =>
                   disk.files[DocumentedLocation(calls[i])].data = calls[i].stream)
    /\ pc = "done" =>
          \A i \in 1..Len(calls) :
             IsFileCall(i) =>
                /\ FileRank(i) <= Len(PathsDoc.paths)
                /\ PathsDoc.paths[FileRank(i)]._path
                      = JoinSlash(DocumentedLocation(calls[i]))

\* A finished extraction that wrote a data file, a headers file and a script
\* file.
C1_Witness ==
    /\ pc = "done"
    /\ \E i, j \in 1..Len(calls) :
          /\ IsFileCall(i) /\ calls[i].scheme = "data"
          /\ IsFileCall(j) /\ calls[j].scheme \in {"headers", "scripts"}

\* C2: write_file with a scheme outside the five raises the unsupported-scheme
\* error before any disk I/O: no directory or file is created or changed and
\* the entry points of the session stay as they were.
C2_UnsupportedSchemeNoIO ==
    [][ ( /\ Len(calls') = Len(calls) + 1
          /\ calls'[Len(calls')].op = "write_file"
          /\ calls'[Len(calls')].scheme \notin FiveSchemes )
        => ( /\ calls'[Len(calls')].raised = "ValueError"
             /\ error' = "ValueError"
             /\ disk' = disk
             /\ entry_points' = entry_points ) ]_vars

\* An unsupported scheme met after a file and an entry point were written,
\* for a path with a directory to make.
C2_Witness ==
    /\ error = "ValueError"
    /\ Len(calls) = 2
    /\ calls[2].scheme = "other"
    /\ Len(Parts(calls[2].path)) = 2
    /\ (entry_points # << >> \/ DOMAIN disk.files # {})

\* The i-th and the j-th call are the same logical file, the data copy
\* include/X written first and the headers copy X after it.
DataThenHeaders(i, j) ==
    /\ i < j
    /\ IsFileCall(i) /\ calls[i].scheme = "data"
    /\ IsFileCall(j) /\ calls[j].scheme = "headers"
    /\ Parts(calls[i].path) = << << "i", "n", "c", "l", "u", "d", "e" >> >> \o Parts(calls[j].path)
    /\ calls[i].stream = calls[j].stream

\* C3: when one file is written under the data scheme as include/X and then
\* under the headers scheme as X, neither call raises a file-exists error, and
\* after both calls the file is on disk with the declared content.
C3_DataThenHeadersNoFileExists ==
    \A i, j \in 1..Len(calls) :
       DataThenHeaders(i, j) =>
          /\ calls[i].raised # "FileExistsError"
          /\ calls[j].raised # "FileExistsError"
          /\ (j = Len(calls) =>
                /\ IsFile(disk, DocumentedLocation(calls[j]))
                /\ disk.files[DocumentedLocation(calls[j])].data = calls[j].stream)

\* The headers copy was written right after the data copy of the same file.
C3_Witness ==
    /\ Len(calls) = 2
    /\ DataThenHeaders(1, 2)
    /\ calls[2].stream # << >>
    /\ calls[2].raised = "none"

\* The j-th call writes, under the same scheme, the destination the i-th
\* call has written.
SameSchemeRewrite(i, j) ==
    /\ i < j
    /\ IsFileCall(i) /\ IsFileCall(j)
    /\ calls[i].raised = "none"
    /\ calls[i].scheme = calls[j].scheme
    /\ calls[i].scheme \in FiveSchemes
    /\ Parts(calls[i].path) = Parts(calls[j].path)

\* C4 as claimed: write_file opens its destination for exclusive writing, so
\* a second write_file to a destination an earlier write_file of the same
\* scheme has written fails with an error.
C4_ExclusiveWrite ==
    \A i, j \in 1..Len(calls) :
       SameSchemeRewrite(i, j) => calls[j].raised # "none"

\* C4 as amended: write_file opens its destination for writing with
\* truncation, so a second write_file to a destination an earlier write_file
\* of the same scheme has written raises no file-exists error, and when it
\* returns the file holds the content of the second call.
C4_TruncatingWrite ==
    \A i, j \in 1..Len(calls) :
       SameSchemeRewrite(i, j) =>
          /\ calls[j].raised # "FileExistsError"
          /\ ((j = Len(calls) /\ calls[j].raised = "none") =>
                disk.files[DocumentedLocation(calls[j])].data = calls[j].stream)

\* A destination written twice under one scheme, the second time with other
\* content.
C4_Witness ==
    /\ Len(calls) = 2
    /\ SameSchemeRewrite(1, 2)
    /\ calls[1].stream # << >>
    /\ calls[2].stream = << >>
    /\ calls[2].raised = "none"

\* The two library schemes taken as one.
LibraryScheme(scheme) == IF scheme = "platlib" THEN "purelib" ELSE scheme

\* No two write_file calls of the session declare the same path under the
\* same scheme (the two library schemes being one).
DistinctWheelFiles ==
    \A i, j \in 1..Len(calls) :
       (i < j /\ IsFileCall(i) /\ IsFileCall(j)) =>
          \/ LibraryScheme(calls[i].scheme) # LibraryScheme(calls[j].scheme)
          \/ Parts(calls[i].path) # Parts(calls[j].path)

\* C5: after finalize_installation paths.json holds exactly one entry for
\* each file the session installed on disk and none for a write_script
\* placeholder: no file is without its entry, every entry is a file's, and no
\* two entries carry the same _path (stated for sessions whose wheel files are
\* pairwise distinct).
C5_OneEntryPerInstalledFile ==
    (pc = "done" /\ DistinctWheelFiles) =>
       /\ \A p \in DOMAIN disk.files :
             \E k \in 1..Len(PathsDoc.paths) : PathsDoc.paths[k]._path = JoinSlash(p)
       /\ \A k \in 1..Len(PathsDoc.paths) :
             \E p \in DOMAIN disk.files : PathsDoc.paths[k]._path = JoinSlash(p)
       /\ \A k1, k2 \in 1..Len(PathsDoc.paths) :
             k1 # k2 => PathsDoc.paths[k1]._path # PathsDoc.paths[k2]._path

\* The text "name = module:attr" of a write_script call.
DeclaredEntryPoint(call) ==
    call.name \o << " " >> \o << "=" >> \o << " " >> \o call.module \o << ":" >> \o call.attr

\* C6: write_script writes no file and makes no directory; its only effect on
\* the session is the text "name = module:attr" appended to the end of the
\* entry points, and the record it returns has neither hash nor size.
C6_WriteScriptOnlyAppends ==
    [][ ( /\ Len(calls') = Len(calls) + 1
          /\ calls'[Len(calls')].op = "write_script" )
        => ( /\ disk' = disk
             /\ entry_points' = Append(entry_points, DeclaredEntryPoint(calls'[Len(calls')]))
             /\ source' = source
             /\ records'[Len(records')][2].hash_ = None
             /\ records'[Len(records')][2].size = None ) ]_vars

\* A second entry point declared after a first one.
C6_Witness ==
    /\ Len(calls) = 2
    /\ calls[1].op = "write_script"
    /\ calls[2].op = "write_script"
    /\ entry_points = << DeclaredEntryPoint(calls[1]), DeclaredEntryPoint(calls[2]) >>

RECURSIVE DeclaredEntryPoints(_)
\* The texts of the write_script calls among the given calls, in their order.
DeclaredEntryPoints(cs) ==
    IF cs = << >> THEN << >>
    ELSE (IF Head(cs).op = "write_script" THEN << DeclaredEntryPoint(Head(cs)) >> ELSE << >>)
         \o DeclaredEntryPoints(Tail(cs))

\* C7: link.json has a noarch.entry_points key exactly when a write_script
\* call was made, its value being the "name = module:attr" texts of the calls
\* in the order they were declared; noarch.type is python and
\* package_metadata_version is 1 in every case.
C7_LinkJsonEntryPoints ==
    pc = "done" =>
       /\ ("entry_points" \in DOMAIN LinkDoc.noarch)
             <=> (\E i \in 1..Len(calls) : calls[i].op = "write_script")
       /\ ("entry_points" \in DOMAIN LinkDoc.noarch)
             => LinkDoc.noarch.entry_points = DeclaredEntryPoints(calls)
       /\ LinkDoc.noarch.type = "python"
       /\ LinkDoc.package_metadata_version = 1
       /\ DOMAIN LinkDoc = {"noarch", "package_metadata_version"}

\* A finished extraction that declared the entry point b before a.
C7_Witness ==
    /\ pc = "done"
    /\ Len(calls) = 3
    /\ calls[1].op = "write_script" /\ calls[1].name = << "b" >>
    /\ calls[2].op = "write_script" /\ calls[2].name = << "a" >>
    /\ "entry_points" \in DOMAIN LinkDoc.noarch

\* The text is lowercase hexadecimal.
IsLowerHex(s) ==
    \A k \in 1..Len(s) :
       s[k] \in {"0", "1", "2", "3", "4", "5", "6", "7", "8", "9", "a", "b", "c", "d", "e", "f"}

\* C8: for every file write_file wrote, the sha256 of its paths.json entry is
\* the 64-character lowercase hexadecimal text of the digest whose unpadded
\* URL-safe base64 text is in the file's record, and size_in_bytes is the
\* number of bytes streamed to disk for the file.
C8_HexOfRecordDigest ==
    pc = "done" =>
       \A i \in 1..Len(calls) :
          IsFileCall(i) =>
             /\ FileRank(i) <= Len(PathsDoc.paths)
             /\ record_list[i][2].hash_
                   = Some(Hash(Sha256, RStripPad(UrlsafeB64Encode(Sha256Digest(calls[i].stream)))))
             /\ PathsDoc.paths[FileRank(i)].sha256
                   = Some(BytesHex(Sha256Digest(calls[i].stream)))
             /\ Len(PathsDoc.paths[FileRank(i)].sha256[1]) = 64
             /\ IsLowerHex(PathsDoc.paths[FileRank(i)].sha256[1])
             /\ PathsDoc.paths[FileRank(i)].size_in_bytes = Some(Len(calls[i].stream))

\* A finished extraction with an empty file and a file of two bytes.
C8_Witness ==
    /\ pc = "done"
    /\ Len(calls) = 3
    /\ IsFileCall(1) /\ calls[1].stream = << >>
    /\ IsFileCall(2) /\ calls[2].stream = << 7, 9 >>
    /\ PathsDoc.paths[2].size_in_bytes = Some(2)

\* The record is the placeholder of an entry point: its path leads out of
\* the library directory.
IsPlaceholder(record) ==
    /\ Len(record.path) >= 2
    /\ record.path[1] = "."
    /\ record.path[2] = "."

\* The record carries no digest: no hash, or a hash whose text is empty or
\* blank.
HasNoDigest(record) ==
    \/ record.hash_ = None
    \/ \A k \in 1..Len(record.hash_[1].value) : record.hash_[1].value[k] = " "

\* The place in the paths list of the entry of the i-th record handed to
\* manifest assembly.
KeptRank(i) == Cardinality({j \in 1..i : ~IsPlaceholder(record_list[j][2])})

\* C9: an absent digest is no error in manifest assembly: a None, empty or
\* blank digest text gives None without raising, and a record that has no
\* hash and is no entry-point placeholder gets its paths.json entry, with a
\* null sha256, instead of aborting the finalization.
C9_AbsentDigestIsNull ==
    /\ error \in {"none", "OSError"}
    /\ pc = "done" =>
          /\ Len(PathsDoc.paths) = KeptRank(Len(record_list))
          /\ \A i \in 1..Len(record_list) :
                (~IsPlaceholder(record_list[i][2]) /\ HasNoDigest(record_list[i][2]))
                   => PathsDoc.paths[KeptRank(i)].sha256 = None

\* A finalization handed a file record with no hash, whose entry has a null
\* sha256.
C9_Witness ==
    /\ pc = "done"
    /\ Len(record_list) = 2
    /\ record_list[1][2].hash_ = None
    /\ ~IsPlaceholder(record_list[1][2])
    /\ Len(PathsDoc.paths) = 2
    /\ PathsDoc.paths[1].sha256 = None

\* C10: index.json has exactly the keys name, version, build, build_number
\* and fn; name and version are the distribution name and version of the
\* source wheel, build is pypi_0, build_number is 0 and fn is
\* name-version-pypi_0.whl, whatever files and scripts the session wrote.
C10_IndexJson ==
    pc = "done" =>
       /\ DOMAIN IndexDoc = {"name", "version", "build", "build_number", "fn"}
       /\ IndexDoc.name = source.distribution
       /\ IndexDoc.version = source.version
       /\ IndexDoc.build = << "p", "y", "p", "i", "_", "0" >>
       /\ IndexDoc.build_number = 0
       /\ IndexDoc.fn = source.distribution \o << "-" >> \o source.version
                        \o << "-", "p", "y", "p", "i", "_", "0", ".", "w", "h", "l" >>

\* The wheel e-p 0.2 extracted with an entry point and a file.
C10_Witness ==
    /\ pc = "done"
    /\ IndexDoc.fn = << "e", "-", "p", "-", "0", ".", "2", "-", "p", "y", "p", "i", "_", "0",
                        ".", "w", "h", "l" >>
    /\ Len(calls) = 3
    /\ calls[1].op = "write_script"
    /\ IsFileCall(2)

RecordLocation == Parts(SitePackages) \o Parts(RecordFilePath(source))

\* C12: finalize_installation changes the accumulated records only in the
\* last slot. The list handed to _create_conda_metadata is as long as the
\* driver's list and equal to it in every slot but the last, where the
\* driver's placeholder for the RECORD is replaced by the record of the RECORD
\* as written: under purelib, with the digest and the size of that file.
C12_OnlyLastSlotReplaced ==
    pc = "done" =>
        LET n == Len(records)
            written == copyfileobj_with_hashing(disk.files[RecordLocation].data)
        IN  /\ n >= 1
            /\ records[n] = << source.root_scheme,
                               RecordEntry(RecordFilePath(source), None, None) >>
            /\ Len(record_list) = n
            /\ \A i \in 1..(n - 1) : record_list[i] = records[i]
            /\ record_list[n] =
                  << "purelib",
                     RecordEntry(RecordFilePath(source),
                                 Some(Hash(Sha256, written.hash_)),
                                 Some(written.size)) >>

\* A platlib wheel is finalized after an entry point and a file: the slot
\* reserved under platlib holds the RECORD's record under purelib.
C12_Witness ==
    /\ pc = "done"
    /\ source.root_scheme = "platlib"
    /\ Len(records) = 4
    /\ records[1][2].hash_ = None
    /\ records[2][2].hash_ # None
    /\ record_list[4][1] = "purelib"
    /\ record_list[4][2].size = Some(Len(disk.files[RecordLocation].data))
    /\ record_list[4] # records[4]

====
